---- MODULE Spec2Model ----
(***************************************************************************)
(* Model of app.py (Image Extractor): build_excel_with_images drives, row  *)
(* by row, fetch_image -> to_data_url -> to_png_thumb -> cell writes, and  *)
(* appends one log entry per row.                                          *)
(*                                                                         *)
(* Strings are sequences of tokens (a scheme prefix, a blank, a word), so  *)
(* strip(), startswith() and the https -> http rewrite are computed.       *)
(* Bytes are a length and the image format Pillow would detect in them.    *)
(* One step of the model is the code between two HTTP GETs.                *)
(***************************************************************************)
EXTENDS Integers, Sequences, FiniteSets, TLC

\* ---------------------------------------------------------------- bounds
MaxRows == 2
MaxCap == 2

\* ------------------------------------------------------------- constants
MAX_BYTES == 12000000

\* ------------------------------------------------------------ cell values
\* A DataFrame / worksheet cell: a string, a number, NaN or None.
StrCell(s) == [t |-> "str", s |-> s, n |-> 0]
NumCell(k) == [t |-> "num", s |-> <<>>, n |-> k]
NaNCell == [t |-> "nan", s |-> <<>>, n |-> 0]
NoneCell == [t |-> "none", s |-> <<>>, n |-> 0]

\* Python truthiness, as used by `value or ""`.
Truthy(v) ==
    CASE v.t = "str" -> v.s # <<>>
      [] v.t = "num" -> v.n # 0
      [] v.t = "nan" -> TRUE
      [] OTHER -> FALSE

\* str(v)
PyStr(v) ==
    CASE v.t = "str" -> v.s
      [] v.t = "num" -> <<ToString(v.n)>>
      [] v.t = "nan" -> <<"nan">>
      [] OTHER -> <<"None">>

RECURSIVE LStrip(_)
LStrip(s) == IF s # <<>> /\ Head(s) = " " THEN LStrip(Tail(s)) ELSE s

RECURSIVE RStrip(_)
RStrip(s) ==
    IF s # <<>> /\ s[Len(s)] = " " THEN RStrip(SubSeq(s, 1, Len(s) - 1)) ELSE s

\* str.strip()
Strip(s) == RStrip(LStrip(s))

\* url.startswith("https://")
StartsWithHttps(u) == u # <<>> /\ Head(u) = "https://"

\* "http://" + url[len("https://"):]
AltUrl(u) == <<"http://">> \o Tail(u)

HasScheme(u) == u # <<>> /\ Head(u) \in {"https://", "http://"}

\* --------------------------------------------------------------- bytes
EmptyBytes == [len |-> 0, fmt |-> "none"]
Formats == {"JPEG", "none"}
Bodies == {EmptyBytes} \cup
          {[len |-> l, fmt |-> f] : l \in {MAX_BYTES, MAX_BYTES + 1}, f \in Formats}
\* What is left on the raw stream once .content came back empty.
RawBodies == {EmptyBytes, [len |-> MAX_BYTES + 2, fmt |-> "JPEG"]}

\* ------------------------------------------------------ HTTP (s.get)
Exc(name) == [kind |-> "exc", exc |-> name, status |-> 0,
              content |-> EmptyBytes, raw |-> EmptyBytes]
Resp(st, c, r) == [kind |-> "resp", exc |-> "", status |-> st,
                   content |-> c, raw |-> r]

\* The outcomes of one s.get(u, ...): an exception or a response.  requests
\* rejects a URL without scheme (MissingSchema) before any connection.
GetOutcomes(u) ==
    IF ~HasScheme(u) THEN {Exc("MissingSchema")}
    ELSE {Exc("SSLError"), Exc("ReadTimeout"), Resp(404, EmptyBytes, EmptyBytes)}
         \cup {Resp(200, c, EmptyBytes) : c \in Bodies \ {EmptyBytes}}
         \cup {Resp(200, EmptyBytes, r) : r \in RawBodies}

\* except SSLError (line 49); the variant catches every exception
IsSSLErrorAny(o) == o.kind = "exc"
IsSSLError(o) == o.kind = "exc" /\ o.exc = "SSLError"

\* r.raise_for_status() raises HTTPError; the variant never does
RaisesForStatusNever(r) == FALSE
RaisesForStatus(r) == r.status >= 400

Min(a, b) == IF a < b THEN a ELSE b

\* r.raw.read(n)
RawRead(r, n) == IF r.raw.len = 0 THEN EmptyBytes
                 ELSE [len |-> Min(r.raw.len, n), fmt |-> r.raw.fmt]

\* data = r.content if r.content else r.raw.read(MAX_BYTES + 1)
ReadData(r) == IF r.content.len > 0 THEN r.content ELSE RawRead(r, MAX_BYTES + 1)

\* if not data and url.startswith("https://")
NeedsFallback(data, u) == data.len = 0 /\ StartsWithHttps(u)

\* return data if data and len(data) <= MAX_BYTES else b""; the variant
\* returns the data whatever its length
FetchReturnUnchecked(data) == data
FetchReturn(data) ==
    IF data.len > 0 /\ data.len <= MAX_BYTES THEN data ELSE EmptyBytes

\* fetch_image's guard: not isinstance(url, str) or not url.strip()
FetchGuard(v) == v.t # "str" \/ Strip(v.s) = <<>>

\* ------------------------------------------------------------- imaging
\* Image.open(...) raises on bytes that hold no image.
Decodable(b) == b.fmt # "none"

sniff_mime(b) ==
    LET fmt == IF Decodable(b) THEN b.fmt ELSE "PNG" IN
    IF fmt \in {"JPG", "JPEG"} THEN "image/jpeg"
    ELSE IF fmt = "PNG" THEN "image/png"
    ELSE IF fmt = "GIF" THEN "image/gif"
    ELSE "image/png"

\* base64 of the original bytes, as one token
B64(b) == "b64:" \o b.fmt \o ":" \o ToString(b.len)

to_data_url(b) == StrCell(<<"data:", sniff_mime(b), ";base64,", B64(b)>>)

\* ------------------------------------------------------------- tables
ColNames == {"name", "thumbnail", "thumbnail_dataurl"}

Range(s) == {s[i] : i \in 1..Len(s)}

\* every column order over one to three distinct columns
Layouts == {c \in UNION {[1..k -> ColNames] : k \in 1..3} :
               \A i, j \in 1..Len(c) : i # j => c[i] # c[j]}

ThumbValues == {NoneCell, NumCell(0), NumCell(7), NaNCell,
                StrCell(<<>>), StrCell(<<" ">>),
                StrCell(<<"https://", "h/a.jpg">>),
                StrCell(<<" ", "http://", "h/b.jpg">>)}

ColValues(c) ==
    CASE c = "thumbnail" -> ThumbValues
      [] c = "thumbnail_dataurl" -> {StrCell(<<"old">>)}
      [] OTHER -> {StrCell(<<"Widget">>)}

AllValues == UNION {ColValues(c) : c \in ColNames}

RowsOf(cols) == {r \in [1..Len(cols) -> AllValues] :
                    \A i \in 1..Len(cols) : r[i] \in ColValues(cols[i])}

Tables == UNION {{[cols |-> c, rows |-> rs] :
                     rs \in UNION {[1..m -> RowsOf(c)] : m \in 0..MaxRows}} :
                 c \in Layouts}

\* list.index(x), 0-based; the caller handles absence
RECURSIVE IndexFrom(_, _, _)
IndexFrom(s, x, i) ==
    IF i > Len(s) THEN -1 ELSE IF s[i] = x THEN i - 1 ELSE IndexFrom(s, x, i + 1)
Index(s, x) == IndexFrom(s, x, 1)

\* "thumbnail" not in df.columns; the variant looks for the other column
MissingThumbnailWrongName(d) == "thumbnail_dataurl" \notin Range(d.cols)
MissingThumbnail(d) == "thumbnail" \notin Range(d.cols)

\* df.head(n); the variant keeps one row more
HeadRowsOffByOne(rows, n) == SubSeq(rows, 1, Min(n + 1, Len(rows)))
HeadRows(rows, n) == SubSeq(rows, 1, Min(n, Len(rows)))

\* df_out = df.copy(); head(max_rows) when max_rows > 0  (lines 97-99)
Truncate(d, cap) ==
    IF cap # 0 /\ cap > 0 THEN [d EXCEPT !.rows = HeadRows(d.rows, cap)] ELSE d

\* df_out["thumbnail_dataurl"] = "" when the column is missing (lines 101-102)
EnsureDataUrl(d) ==
    IF "thumbnail_dataurl" \notin Range(d.cols)
    THEN [cols |-> Append(d.cols, "thumbnail_dataurl"),
          rows |-> [i \in 1..Len(d.rows) |-> Append(d.rows[i], StrCell(<<>>))]]
    ELSE d

\* dataframe_to_rows(df_out, index=False, header=True) appended to the sheet
SheetOf(d) ==
    <<[i \in 1..Len(d.cols) |-> StrCell(<<d.cols[i]>>)]>> \o d.rows

InsertAt(s, i, x) == SubSeq(s, 1, i - 1) \o <<x>> \o SubSeq(s, i, Len(s))

\* ws.insert_cols(idx, amount=1): cells at idx and right of it move right
InsertCols(sheet, idx) ==
    [r \in 1..Len(sheet) |-> InsertAt(sheet[r], idx, NoneCell)]

\* ws.cell(row, column).value = v
SetCell(sheet, r, c, v) == [sheet EXCEPT ![r][c] = v]

\* ws.cell(row, column).value; a cell beyond the stored ones reads None
CellValue(sheet, r, c) ==
    IF c \in 1..Len(sheet[r]) THEN sheet[r][c] ELSE NoneCell

\* str(ws.cell(...).value or "").strip()   (line 123)
UrlOfCell(v) == Strip(PyStr(IF Truthy(v) THEN v ELSE StrCell(<<>>)))

LogEntry(r, st) == [row |-> r, status |-> st]

\* ---------------------------------------------------------------- state
VARIABLES
    pc,           \* position in build_excel_with_images / fetch_image
    df,           \* the input DataFrame
    max_rows,     \* the row cap
    error,        \* the exception build_excel_with_images raised, or ""
    ws,           \* the worksheet: rows of cell values, row 1 the headers
    headers,      \* header names read at line 108
    col_thumb, col_dataurl, col_img,
    row_idx,      \* loop variable of line 122
    logs, ok, fail,
    images,       \* anchors (row, column) of the embedded images
    heights,      \* rows whose height was set to 80
    url,          \* the stripped URL of the row being processed
    gets,         \* the s.get calls of the row being (or last) processed
    last          \* what fetch_image gave for the last processed row

vars == <<pc, df, max_rows, error, ws, headers, col_thumb, col_dataurl, col_img,
          row_idx, logs, ok, fail, images, heights, url, gets, last>>

NoLast == [row |-> 0, url |-> <<>>, res |-> "none", bytes |-> EmptyBytes]

Init ==
    /\ pc = "start"
    /\ df \in Tables
    /\ max_rows \in 0..MaxCap
    /\ error = ""
    /\ ws = <<>>
    /\ headers = <<>>
    /\ col_thumb = 0 /\ col_dataurl = 0 /\ col_img = 0
    /\ row_idx = 0
    /\ logs = <<>> /\ ok = 0 /\ fail = 0
    /\ images = {} /\ heights = {}
    /\ url = <<>>
    /\ gets = <<>>
    /\ last = NoLast

\* ------------------------------------------------------ end of a row
\* What every branch of the loop body shares: the log entry is appended and
\* the loop moves to the next row, or leaves (lines 134, 137, 140, 122).
NextRow(entry, res) ==
    /\ logs' = Append(logs, entry)
    /\ last' = res
    /\ row_idx' = row_idx + 1
    /\ pc' = IF row_idx + 1 > Len(ws) THEN "save" ELSE "row"

Result(kind, b) ==
    [row |-> row_idx - 1, url |-> url', res |-> kind, bytes |-> b]

\* except Exception as e (lines 138-140), raised before any cell was written;
\* the variant logs the row and leaves the loop
RowRaiseAbort(name) ==
    /\ fail' = fail + 1
    /\ logs' = Append(logs, LogEntry(row_idx - 1, "error:" \o name))
    /\ last' = Result("raised", EmptyBytes)
    /\ row_idx' = row_idx
    /\ pc' = "save"
    /\ UNCHANGED <<ws, images, heights, ok>>
RowRaise(name) ==
    /\ fail' = fail + 1
    /\ NextRow(LogEntry(row_idx - 1, "error:" \o name),
               Result("raised", EmptyBytes))
    /\ UNCHANGED <<ws, images, heights, ok>>

\* else branch (lines 135-137)
RowNoBytes ==
    /\ fail' = fail + 1
    /\ NextRow(LogEntry(row_idx - 1, "no-bytes"),
               Result("empty", EmptyBytes))
    /\ UNCHANGED <<ws, images, heights, ok>>

\* if img_bytes: (lines 127-134).  The data-url cell is assigned at line 128,
\* before to_png_thumb decodes the bytes at line 129 and may raise.
RowImage(img) ==
    /\ ws' = SetCell(ws, row_idx, col_dataurl, to_data_url(img))
    /\ IF Decodable(img)
       THEN /\ images' = images \cup {<<row_idx, col_img>>}
            /\ heights' = heights \cup {row_idx}
            /\ ok' = ok + 1
            /\ fail' = fail
            /\ NextRow(LogEntry(row_idx - 1, "ok"), Result("bytes", img))
       ELSE /\ fail' = fail + 1
            /\ NextRow(LogEntry(row_idx - 1, "error:UnidentifiedImageError"),
                       Result("bytes", img))
            /\ UNCHANGED <<images, heights, ok>>

\* fetch_image returns (line 61) and the loop body goes on (line 127)
FetchDone(data) ==
    LET img == FetchReturn(data) IN
    IF img.len > 0 THEN RowImage(img) ELSE RowNoBytes

\* A response of the primary request or of its no-verify retry (lines 51-53)
HandleResponse(r) ==
    IF RaisesForStatus(r) THEN RowRaise("HTTPError")
    ELSE LET data == ReadData(r) IN
         IF NeedsFallback(data, url)
         THEN /\ pc' = "get_alt"
              /\ UNCHANGED <<ws, images, heights, ok, fail, logs, last, row_idx>>
         ELSE FetchDone(data)

GetCall(kind, u, o) ==
    [row |-> row_idx - 1, kind |-> kind, url |-> u, out |-> o,
     logged |-> Len(logs)]

static == <<df, max_rows, error, headers, col_thumb, col_dataurl, col_img>>

\* -------------------------------------------------------------- actions
\* Lines 93-122: the column check, the copy, the sheet and its new column.
Build ==
    /\ pc = "start"
    /\ IF MissingThumbnail(df)
       THEN /\ pc' = "failed"
            /\ error' = "ValueError: Missing required column: 'thumbnail'"
            /\ UNCHANGED <<ws, headers, col_thumb, col_dataurl, col_img, row_idx>>
       ELSE LET df_out == EnsureDataUrl(Truncate(df, max_rows))
                sheet == SheetOf(df_out)
                hs == [i \in 1..Len(sheet[1]) |-> sheet[1][i].s[1]]
            IN  IF Index(hs, "thumbnail") < 0
                THEN /\ pc' = "failed"
                     /\ error' = "ValueError: 'thumbnail' is not in list"
                     /\ UNCHANGED <<ws, headers, col_thumb, col_dataurl, col_img,
                                    row_idx>>
                ELSE /\ headers' = hs
                     /\ col_thumb' = Index(hs, "thumbnail") + 1
                     /\ col_dataurl' = Index(hs, "thumbnail_dataurl") + 1
                     /\ col_img' = col_dataurl' + 1
                     /\ ws' = SetCell(InsertCols(sheet, col_dataurl' + 1), 1,
                                      col_dataurl' + 1,
                                      StrCell(<<"thumbnail_image_embedded">>))
                     /\ row_idx' = 2
                     /\ pc' = IF 2 > Len(sheet) THEN "save" ELSE "row"
                     /\ error' = ""
    /\ UNCHANGED <<df, max_rows, logs, ok, fail, images, heights, url, gets, last>>

\* Lines 123-126 and 42-46: the URL cell is read; an empty URL is not fetched,
\* any other enters fetch_image.
RowStart ==
    /\ pc = "row"
    /\ url' = UrlOfCell(CellValue(ws, row_idx, col_thumb))
    /\ gets' = <<>>
    /\ IF url' = <<>> \/ FetchGuard(StrCell(url'))
       THEN RowNoBytes
       ELSE /\ pc' = "get_primary"
            /\ UNCHANGED <<ws, images, heights, ok, fail, logs, last, row_idx>>
    /\ UNCHANGED static

\* Line 48: the primary GET; an SSLError leads to the retry of line 50.
GetPrimary ==
    /\ pc = "get_primary"
    /\ UNCHANGED url
    /\ \E o \in GetOutcomes(url) :
          /\ gets' = Append(gets, GetCall("primary", url, o))
          /\ IF o.kind = "exc"
             THEN IF IsSSLError(o)
                  THEN /\ pc' = "get_noverify"
                       /\ UNCHANGED <<ws, images, heights, ok, fail, logs, last,
                                      row_idx>>
                  ELSE RowRaise(o.exc)
             ELSE HandleResponse(o)
    /\ UNCHANGED static

\* Line 50: the GET with verify=False; whatever it raises propagates.
GetNoVerify ==
    /\ pc = "get_noverify"
    /\ UNCHANGED url
    /\ \E o \in GetOutcomes(url) :
          /\ gets' = Append(gets, GetCall("noverify", url, o))
          /\ IF o.kind = "exc"
             THEN RowRaise(o.exc)
             ELSE HandleResponse(o)
    /\ UNCHANGED static

\* Any failure of the fallback returns b"" (lines 59-60); the variant lets it
\* propagate like a failure of the primary request.
FallbackFailedRaises(o) == RowRaise(IF o.kind = "exc" THEN o.exc ELSE "HTTPError")
FallbackFailed(o) == RowNoBytes

\* Lines 54-61: the GET of the http:// URL.
GetAlt ==
    /\ pc = "get_alt"
    /\ UNCHANGED url
    /\ \E o \in GetOutcomes(AltUrl(url)) :
          /\ gets' = Append(gets, GetCall("alt", AltUrl(url), o))
          /\ IF o.kind = "exc" \/ RaisesForStatus(o)
             THEN FallbackFailed(o)
             ELSE FetchDone(ReadData(o))
    /\ UNCHANGED static

\* Lines 144-145: the workbook is saved and returned with the log.
Save ==
    /\ pc = "save"
    /\ pc' = "done"
    /\ UNCHANGED <<df, max_rows, error, ws, headers, col_thumb, col_dataurl,
                   col_img, row_idx, logs, ok, fail, images, heights, url, gets,
                   last>>

Next == \/ Build
        \/ RowStart
        \/ GetPrimary
        \/ GetNoVerify
        \/ GetAlt
        \/ Save

Spec == Init /\ [][Next]_vars

\* ------------------------------------------------------------ properties
InLoop == pc \in {"row", "get_primary", "get_noverify", "get_alt"}
Started == pc \notin {"start", "failed"}

\* the last row's processing is over: `last` and `gets` describe that row
RowComplete == pc \in {"row", "save", "done"} /\ last.row > 0

\* the number of data rows the cap leaves
Expected == IF max_rows > 0 /\ max_rows < Len(df.rows) THEN max_rows
            ELSE Len(df.rows)

\* the column of the sheet whose header cell holds `name` (0 when none does)
SheetCol(name) == Index(ws[1], StrCell(<<name>>)) + 1

\* the value row i of the input holds in column `name`
InputValue(i, name) == df.rows[i][Index(df.cols, name) + 1]

\* the data-url of row i before the run touched it
InputDataUrl(i) == IF "thumbnail_dataurl" \in Range(df.cols)
                   THEN InputValue(i, "thumbnail_dataurl") ELSE StrCell(<<>>)

Failed(o) == o.kind = "exc" \/ o.status >= 400
SucceededEmpty(o) ==
    o.kind = "resp" /\ o.status < 400 /\ o.content.len = 0 /\ o.raw.len = 0
Oversized(o) ==
    /\ o.kind = "resp" /\ o.status < 400
    /\ \/ o.content.len > MAX_BYTES
       \/ o.content.len = 0 /\ o.raw.len > MAX_BYTES

LastStatus == logs[last.row].status

\* C1: the log holds exactly one entry per processed data row, numbered 1..n in
\* row order, whatever the outcomes: while the loop runs the rows before the
\* current one are logged, and when it is left all Expected rows are.
C1_OneLogEntryPerRow ==
    /\ \A i \in 1..Len(logs) : logs[i].row = i
    /\ InLoop => Len(logs) = row_idx - 2 /\ row_idx - 1 <= Expected
    /\ pc \in {"save", "done"} => Len(logs) = Expected
    /\ ok + fail = Len(logs)

\* C1 witness: a run is over in which row 1 failed with an exception and row 2
\* was still processed and logged "ok".
C1_Witness ==
    /\ pc = "done" /\ Len(logs) = 2
    /\ logs[1].status \notin {"ok", "no-bytes"}
    /\ logs[2].status = "ok"

\* C2: without a `thumbnail` column the run fails at once with the
\* missing-column error: no sheet, no row, no GET, no log entry.
C2_MissingColumnFails ==
    "thumbnail" \notin Range(df.cols) =>
        /\ pc \in {"start", "failed"}
        /\ pc = "failed" =>
              error = "ValueError: Missing required column: 'thumbnail'"
        /\ ws = <<>> /\ row_idx = 0 /\ logs = <<>> /\ gets = <<>>
        /\ last = NoLast

\* C2 witness: a table with rows and no `thumbnail` column has failed.
C2_Witness ==
    /\ pc = "failed" /\ Len(df.rows) > 0
    /\ "thumbnail" \notin Range(df.cols)

\* C3 (as claimed): a row whose `thumbnail` cell is empty or not a string has
\* an empty fetch result and no s.get is made for it.
C3_EmptyOrNonStringNoFetch ==
    RowComplete =>
        LET v == InputValue(last.row, "thumbnail") IN
        (v.t # "str" \/ Strip(v.s) = <<>>) =>
            last.res = "empty" /\ gets = <<>> /\ LastStatus = "no-bytes"

\* C4 (as claimed): a non-success HTTP status gives an empty fetch result and
\* the status "no-bytes".
C4_Original ==
    RowComplete =>
        ((\E k \in 1..Len(gets) :
              gets[k].out.kind = "resp" /\ gets[k].out.status >= 400)
         => last.res = "empty" /\ LastStatus = "no-bytes")

\* C4 (amended): a non-success status of the primary request or of its
\* no-verify retry makes fetch_image raise and the row is logged
\* "error:HTTPError"; a non-success status of the http:// fallback gives an
\* empty result and "no-bytes".
C4_StatusErrorLogged ==
    RowComplete =>
        \A k \in 1..Len(gets) :
            (gets[k].out.kind = "resp" /\ gets[k].out.status >= 400) =>
                IF gets[k].kind = "alt"
                THEN last.res = "empty" /\ LastStatus = "no-bytes"
                ELSE last.res = "raised" /\ LastStatus = "error:HTTPError"

\* C4 witness: the primary request of the last row came back 404.
C4_Witness ==
    /\ RowComplete /\ Len(gets) = 1
    /\ gets[1].out.kind = "resp" /\ gets[1].out.status = 404
    /\ LastStatus = "error:HTTPError"

\* C5 (as claimed): a row that is not logged "ok" keeps its data-url cell as
\* it was and has no image embedded.
C5_FailureLeavesCell ==
    Started =>
        \A i \in 1..Len(logs) :
            logs[i].status # "ok" =>
                /\ ws[i + 1][SheetCol("thumbnail_dataurl")] = InputDataUrl(i)
                /\ \A c \in 1..Len(ws[1]) : <<i + 1, c>> \notin images

\* C6: the sheet holds exactly the first min(cap, M) rows of the input, in
\* order (all M with cap 0), and these are the rows processed.
C6_RowCap ==
    Started =>
        /\ Len(ws) - 1 = Expected
        /\ \A i \in 1..Expected : \A j \in 1..Len(df.cols) :
              df.cols[j] # "thumbnail_dataurl" =>
                  /\ SheetCol(df.cols[j]) > 0
                  /\ ws[i + 1][SheetCol(df.cols[j])] = df.rows[i][j]
        /\ Len(logs) <= Expected
        /\ pc = "done" => Len(logs) = Expected

\* C6 witness: a run with a positive cap below the number of rows is over.
C6_Witness ==
    /\ pc = "done" /\ max_rows > 0 /\ max_rows < Len(df.rows)
    /\ Len(ws) = max_rows + 1 /\ Len(logs) = max_rows

\* C7: bytes returned by fetch_image are at most MAX_BYTES long, and a larger
\* payload, of the primary request or of the fallback, gives the empty result.
C7_MaxBytes ==
    RowComplete =>
        /\ last.res = "bytes" =>
              last.bytes.len > 0 /\ last.bytes.len <= MAX_BYTES
        /\ (gets # <<>> /\ Oversized(gets[Len(gets)].out)) =>
              last.res = "empty" /\ LastStatus = "no-bytes"

\* C7 witness: the fallback request of the last row returned more than
\* MAX_BYTES and the row has an empty result.
C7_Witness ==
    /\ RowComplete /\ gets # <<>>
    /\ gets[Len(gets)].kind = "alt"
    /\ gets[Len(gets)].out.content.len > MAX_BYTES
    /\ last.res = "empty"

\* what C8 says of the fallback request, in both its forms
C8_Fallback ==
    /\ \A k \in 1..Len(gets) :
          gets[k].kind = "alt" =>
              /\ k > 1 /\ k = Len(gets)
              /\ gets[k - 1].kind \in {"primary", "noverify"}
              /\ SucceededEmpty(gets[k - 1].out)
              /\ Head(gets[k - 1].url) = "https://"
              /\ gets[k].url = <<"http://">> \o Tail(gets[k - 1].url)
    /\ RowComplete =>
          \A k \in 1..Len(gets) :
              (gets[k].kind = "alt" /\ Failed(gets[k].out)) =>
                  last.res = "empty" /\ LastStatus = "no-bytes"

\* C8 (as claimed): the fallback is issued only after an empty successful
\* response over https, once, its failure gives the empty result, and a
\* failure of the primary request propagates.
C8_Original ==
    /\ C8_Fallback
    /\ RowComplete =>
          ((gets # <<>> /\ Failed(gets[1].out)) => last.res = "raised")

\* C8 (amended): as claimed, except that an SSLError of the primary request is
\* retried without verification; any other failure of the primary request, and
\* any failure of that retry, propagates.
C8_FallbackCollapses ==
    /\ C8_Fallback
    /\ RowComplete =>
          \A k \in 1..Len(gets) :
              (/\ gets[k].kind \in {"primary", "noverify"}
               /\ Failed(gets[k].out)
               /\ ~(gets[k].kind = "primary" /\ gets[k].out.exc = "SSLError"))
              => /\ last.res = "raised"
                 /\ LastStatus = "error:" \o (IF gets[k].out.kind = "exc"
                                              THEN gets[k].out.exc
                                              ELSE "HTTPError")

\* C8 witness: the fallback request of the last row failed and the row has an
\* empty result.
C8_Witness ==
    /\ RowComplete /\ Len(gets) >= 2
    /\ gets[Len(gets)].kind = "alt" /\ Failed(gets[Len(gets)].out)
    /\ last.res = "empty"

\* C9: a row makes at most three GETs, in the order primary, no-verify retry,
\* fallback; the retry only follows an SSLError of the primary request; and
\* every GET of a row is made after the previous row's log entry was appended.
C9_AttemptOrder ==
    /\ Len(gets) <= 3
    /\ \A k \in 1..Len(gets) :
          /\ gets[k].kind = "primary" <=> k = 1
          /\ gets[k].kind = "noverify" =>
                /\ k = 2
                /\ gets[1].out.kind = "exc" /\ gets[1].out.exc = "SSLError"
          /\ gets[k].kind = "alt" => k = Len(gets)
          /\ gets[k].logged = gets[k].row - 1
          /\ gets[k].row = IF RowComplete THEN last.row ELSE row_idx - 1
    /\ pc \in {"get_primary", "get_noverify", "get_alt"} =>
          Len(logs) = row_idx - 2

\* C9 witness: the second row made all three GETs.
C9_Witness ==
    /\ Len(gets) = 3 /\ gets[1].row = 2
    /\ gets[2].kind = "noverify" /\ gets[3].kind = "alt"

\* C10 (as claimed): in every column order the URL read for a row is the row's
\* `thumbnail` value, and the data URL goes to its `thumbnail_dataurl` cell.
C10_ReadsThumbnail ==
    RowComplete =>
        /\ last.url = UrlOfCell(InputValue(last.row, "thumbnail"))
        /\ LastStatus = "ok" =>
              ws[last.row + 1][SheetCol("thumbnail_dataurl")]
                  = to_data_url(last.bytes)

====
